---------------------------- MODULE Spec2Model ----------------------------
(***************************************************************************)
(* State-machine model of the resume ingestion and match-analysis logic    *)
(* of the application component (App), the resume previewer and the        *)
(* services in geminiService.ts.                                           *)
(*                                                                         *)
(* The React state of App is the state of the machine.  One action is one  *)
(* event handler or one resumption of an asynchronous function after an    *)
(* await on I/O, together with every state update that follows it without  *)
(* another I/O suspension: the promise continuations that run in the same  *)
(* microtask checkpoint and the "Queue Manager" effect, which React runs   *)
(* after every commit that changed one of its dependencies.                *)
(***************************************************************************)
EXTENDS Integers, Sequences, FiniteSets, TLC

(***************************************************************************)
(* Bounds of the model.                                                    *)
(***************************************************************************)
\* File objects admitted to the queue over one run.
MaxFiles == 3
\* Pages of the paginated document.
MaxPages == 1
\* processFile invocations a user starts by hand while others are in flight.
MaxInFlight == 2
\* Candidates of a collection handed to the match analysis.
MaxCandidates == 2
\* Pages of the document whose composite image is followed page by page.
DocPages == 3

(***************************************************************************)
(* Files.  A File object has a name and a mime type; uid is the identity   *)
(* of the object (two uploads of one name are two objects).                *)
(***************************************************************************)
FileNames == {"a.pdf", "b.png", "d.txt"}

FileType(name) ==
    CASE name = "a.pdf"  -> "application/pdf"
      [] name = "b.png"  -> "image/png"
      [] name = "e.pdf"  -> "application/pdf"
      [] name = "c.docx" -> "application/vnd.openxmlformats-officedocument.wordprocessingml.document"
      [] OTHER           -> "text/plain"

IsImage(type) == type = "image/png"
IsPdf(type)   == type = "application/pdf"
IsDoc(type)   == type = "application/vnd.openxmlformats-officedocument.wordprocessingml.document"

\* pdf.numPages of the paginated document
NumPages(name) == IF name = "e.pdf" THEN DocPages ELSE MaxPages

\* "no file": the null of currentFileForPreview
NoFile == [name |-> "", uid |-> 0]

(***************************************************************************)
(* FileStatus and Candidate.                                               *)
(***************************************************************************)
\* absent optional number (matchScore?: number): a value that is no score
UndefinedScore == 101
\* absent optional string (matchReason?: string)
UndefinedReason == "undefined"

NoMessage == <<>>
NoStatus == [status |-> "none", progress |-> 0, error |-> NoMessage]
Parsing(p) == [status |-> "parsing", progress |-> p, error |-> NoMessage]
Success == [status |-> "success", progress |-> 100, error |-> NoMessage]
ErrorStatus(msg) == [status |-> "error", progress |-> 100, error |-> msg]

VARIABLES
    candidates,             \* Candidate[]
    fileStatuses,           \* Map<string, FileStatus>
    fileQueue,              \* File[]
    currentFileForPreview,  \* File | null
    isAutoParse,            \* boolean
    selectedIds,            \* Set<string>
    isAnalyzingJob,         \* boolean
    pipelines,              \* processFile invocations suspended at an await
    analysis,               \* the handleJobAnalysis invocation suspended at Promise.all
    jobAlert,               \* the alert of handleJobAnalysis' catch was shown
    nextId,                 \* ids handed out so far (crypto.randomUUID is fresh)
    nextUid,                \* File objects admitted so far
    presented,              \* history: the files that were set as currentFileForPreview
    dispatched,             \* history: the files that were passed to processFile
    finished,               \* history: the files for which a processFile ran to its end
    cancelled,              \* history: the files for which handlePreviewCancel ran
    sortConfig,             \* { key: keyof Candidate | null, direction }
    selectedPages,          \* ResumePreviewer: Set<number>
    manualPageInput         \* ResumePreviewer: string

vars == <<candidates, fileStatuses, fileQueue, currentFileForPreview, isAutoParse,
          selectedIds, isAnalyzingJob, pipelines, analysis, jobAlert, nextId,
          nextUid, presented, dispatched, finished, cancelled, sortConfig,
          selectedPages, manualPageInput>>

\* the state of the mounted ResumePreviewer
previewer == <<selectedPages, manualPageInput>>

\* useState({ key: null, direction: 'ascending' })
NoSort == [key |-> "null", direction |-> "ascending"]

(***************************************************************************)
(* Helpers on sequences.                                                   *)
(***************************************************************************)
Range(seq) == {seq[i] : i \in 1..Len(seq)}

RECURSIVE SortedSeq(_)
\* Array.from(set).sort((a, b) => a - b)
SortedSeq(set) ==
    IF set = {} THEN <<>>
    ELSE LET m == CHOOSE x \in set : \A y \in set : x <= y
         IN <<m>> \o SortedSeq(set \ {m})

RemoveAt(seq, i) == SubSeq(seq, 1, i - 1) \o SubSeq(seq, i + 1, Len(seq))

\* Math.round(num / den) for num >= 0, den > 0
Round(num, den) == (2 * num + den) \div (2 * den)

\* prev.filter(f => f.name !== name)
FilterOutName(queue, name) == SelectSeq(queue, LAMBDA f : f.name # name)

(***************************************************************************)
(* The part of the state that processFile and the Queue Manager update.    *)
(***************************************************************************)
State ==
    [candidates |-> candidates, fileStatuses |-> fileStatuses,
     fileQueue |-> fileQueue, currentFileForPreview |-> currentFileForPreview,
     isAutoParse |-> isAutoParse, pipelines |-> pipelines, nextId |-> nextId,
     presented |-> presented, dispatched |-> dispatched, finished |-> finished]

Commit(s) ==
    /\ candidates' = s.candidates
    /\ fileStatuses' = s.fileStatuses
    /\ fileQueue' = s.fileQueue
    /\ currentFileForPreview' = s.currentFileForPreview
    /\ isAutoParse' = s.isAutoParse
    /\ pipelines' = s.pipelines
    /\ nextId' = s.nextId
    /\ presented' = s.presented
    /\ dispatched' = s.dispatched
    /\ finished' = s.finished

(***************************************************************************)
(* Error messages are kept as the sequence of the pieces the code          *)
(* concatenates.                                                           *)
(***************************************************************************)
\* parseResume's catch: `AI processing failed: ${error.message}` for an Error,
\* "An unknown error occurred during parsing." for any other thrown value
WrapError(cause) ==
    IF cause.isError
    THEN <<"AI processing failed: ">> \o cause.message
    ELSE <<"An unknown error occurred during parsing.">>

UnsupportedFileType(type) ==
    [isError |-> TRUE, message |-> <<"Unsupported file type: ", type>>]
NoPagesRendered ==
    [isError |-> TRUE, message |-> <<"Could not render any PDF pages.">>]
InvalidDataFormat ==
    [isError |-> TRUE,
     message |-> <<"The AI model returned an invalid data format. Please try again.">>]
\* a rejection of the document library, of mammoth or of the AI transport
LibraryError == [isError |-> TRUE, message |-> <<"library error">>]
\* FileReader.onerror rejects with the event, which is no Error
ReaderError == [isError |-> FALSE, message |-> <<>>]

(***************************************************************************)
(* processFile: the end of an invocation p (its catch and finally blocks). *)
(***************************************************************************)
\* the finally block: clear the preview captured by the closure, drop the name
ProcessFileFinally(s, p) ==
    [s EXCEPT
        !.currentFileForPreview =
            IF p.preview # NoFile /\ p.preview.name = p.file.name
            THEN NoFile ELSE @,
        !.fileQueue = FilterOutName(@, p.file.name),
        !.finished = @ \cup {p.file}]

\* a catch block that does not store the error status
ProcessFileCatchSilent(s, p, cause) == ProcessFileFinally(s, p)

\* the catch block of processFile after parseResume rejected with cause
ProcessFileCatch(s, p, cause) ==
    ProcessFileFinally(
        [s EXCEPT !.fileStatuses[p.file.name] = ErrorStatus(WrapError(cause))], p)

\* parseResume's finalCandidate
FinalCandidate(id, file) ==
    [id |-> id, fileName |-> file.name, file |-> file.uid, isShortlisted |-> FALSE,
     matchScore |-> UndefinedScore, matchReason |-> UndefinedReason]

\* a try block that puts the new Candidate in front of the collection
ProcessFileResolvedPrepends(s, p) ==
    ProcessFileFinally(
        [s EXCEPT !.candidates = <<FinalCandidate(s.nextId + 1, p.file)>> \o @,
                  !.nextId = @ + 1,
                  !.fileStatuses[p.file.name] = Success], p)

\* the try block of processFile after parseResume resolved
ProcessFileResolved(s, p) ==
    ProcessFileFinally(
        [s EXCEPT !.candidates = Append(@, FinalCandidate(s.nextId + 1, p.file)),
                  !.nextId = @ + 1,
                  !.fileStatuses[p.file.name] = Success], p)

(***************************************************************************)
(* processFile up to its first suspension.  The status is written          *)
(* {parsing, 0}, then fileToGenerativePart reports 5; a file of an         *)
(* unsupported type throws before any await, so that its catch and finally *)
(* run before any other event.                                             *)
(***************************************************************************)
NewPipeline(s, file, pages) ==
    [file |-> file, pages |-> pages, preview |-> s.currentFileForPreview,
     pc |-> "read", idx |-> 0, processedPages |-> 0]

processFile(s, file, pages) ==
    LET p  == NewPipeline(s, file, pages)
        s1 == [s EXCEPT !.fileStatuses[file.name] = Parsing(5),
                        !.dispatched = @ \cup {file}]
        type == FileType(file.name)
    IN  IF IsImage(type) \/ IsPdf(type) \/ IsDoc(type)
        THEN [s1 EXCEPT !.pipelines = Append(@, p)]
        ELSE ProcessFileCatch(s1, p, UnsupportedFileType(type))

\* a Queue Manager that dispatches the file at the end of the queue
RECURSIVE QueueManagerLast(_)
QueueManagerLast(s) ==
    IF s.fileQueue = <<>> THEN s
    ELSE IF s.currentFileForPreview # NoFile /\ ~s.isAutoParse THEN s
    ELSE LET nextFile == s.fileQueue[Len(s.fileQueue)] IN
        IF s.fileStatuses[nextFile.name].status # "none" THEN s
        ELSE IF s.isAutoParse
             THEN QueueManagerLast(processFile(s, nextFile, <<>>))
             ELSE QueueManagerLast([s EXCEPT !.currentFileForPreview = nextFile,
                                             !.presented = @ \cup {nextFile}])

(***************************************************************************)
(* The Queue Manager effect, run until it changes nothing.                 *)
(***************************************************************************)
RECURSIVE QueueManager(_)
QueueManager(s) ==
    IF s.fileQueue = <<>> THEN s
    ELSE IF s.currentFileForPreview # NoFile /\ ~s.isAutoParse THEN s
    ELSE LET nextFile == Head(s.fileQueue) IN
        IF s.fileStatuses[nextFile.name].status = "parsing" THEN s
        ELSE IF s.isAutoParse
             THEN QueueManager(processFile(s, nextFile, <<>>))
             ELSE QueueManager([s EXCEPT !.currentFileForPreview = nextFile,
                                         !.presented = @ \cup {nextFile}])

(***************************************************************************)
(* fileToGenerativePart for a paginated document.                          *)
(***************************************************************************)
\* pages && pages.length > 0 ? pages : [1, ..., numPages]
PagesToParse(pages, numPages) ==
    IF Len(pages) > 0 THEN pages ELSE [i \in 1..numPages |-> i]

RECURSIVE NextValid(_, _, _)
\* the first index >= i whose page number the loop does not skip
\* (pageNum > pdf.numPages || pageNum < 1), Len(pages) + 1 when there is none
NextValid(pages, i, numPages) ==
    IF i > Len(pages) THEN i
    ELSE IF pages[i] > numPages \/ pages[i] < 1
         THEN NextValid(pages, i + 1, numPages)
         ELSE i

\* 5 + Math.round((processedPages / totalPagesToProcess) * 75)
PageProgress(processedPages, totalPagesToProcess) ==
    5 + Round(processedPages * 75, totalPagesToProcess)

\* the code after the page loop, for invocation k whose record is now p:
\* no page rendered throws, else the composite is encoded and 80 is reported
\* (the composite canvas is taken to have a 2d context)
AfterPageLoop(s, k, p) ==
    IF p.processedPages = 0
    THEN ProcessFileCatch([s EXCEPT !.pipelines = RemoveAt(@, k)], p, NoPagesRendered)
    ELSE [s EXCEPT !.fileStatuses[p.file.name] = Parsing(80),
                   !.pipelines[k] = [p EXCEPT !.pc = "ai"]]

\* the loop from index i on: suspend at the next page that is not skipped
ContinuePageLoop(s, k, p, i) ==
    LET ptp == PagesToParse(p.pages, NumPages(p.file.name))
        j   == NextValid(ptp, i, NumPages(p.file.name))
    IN  IF j > Len(ptp)
        THEN AfterPageLoop(s, k, p)
        ELSE [s EXCEPT !.pipelines[k] = [p EXCEPT !.pc = "render", !.idx = j]]

(***************************************************************************)
(* Resumptions of a processFile invocation.                                *)
(***************************************************************************)
\* The file's content was read (toBase64, or the document library and
\* getDocument, or mammoth), or the read was rejected.
FileRead(k, ok) ==
    /\ k \in 1..Len(pipelines)
    /\ pipelines[k].pc = "read"
    /\ LET p    == pipelines[k]
           type == FileType(p.file.name)
           s    == State
       IN  Commit(QueueManager(
             IF ~ok
             THEN ProcessFileCatch([s EXCEPT !.pipelines = RemoveAt(@, k)], p,
                                   IF IsImage(type) THEN ReaderError ELSE LibraryError)
             ELSE IF IsPdf(type)
             THEN ContinuePageLoop(s, k, p, 1)
             ELSE [s EXCEPT !.fileStatuses[p.file.name] = Parsing(80),
                            !.pipelines[k] = [p EXCEPT !.pc = "ai"]]))
    /\ UNCHANGED <<sortConfig, previewer, selectedIds, isAnalyzingJob, analysis,
                   jobAlert, nextUid, cancelled>>

\* One page was fetched; with a 2d context it is rendered and counted,
\* without one (if (!context) continue) it is skipped.
PageRendered(k, context) ==
    /\ k \in 1..Len(pipelines)
    /\ pipelines[k].pc = "render"
    /\ LET p   == pipelines[k]
           ptp == PagesToParse(p.pages, NumPages(p.file.name))
           p2  == IF context THEN [p EXCEPT !.processedPages = @ + 1] ELSE p
           s   == State
           s2  == IF context
                  THEN [s EXCEPT !.fileStatuses[p.file.name] =
                                    Parsing(PageProgress(p2.processedPages, Len(ptp)))]
                  ELSE s
       IN  Commit(QueueManager(ContinuePageLoop(s2, k, p2, p.idx + 1)))
    /\ UNCHANGED <<sortConfig, previewer, selectedIds, isAnalyzingJob, analysis,
                   jobAlert, nextUid, cancelled>>

\* what ai.models.generateContent can do for an extraction request
AiReplies == {"reject", "invalid", "empty", "json"}

\* The AI call of parseResume settled: rejected, or resolved with a text
\* that is not JSON, with an empty text (read as "{}") or with a JSON object.
AiReplied(k, reply) ==
    /\ k \in 1..Len(pipelines)
    /\ pipelines[k].pc = "ai"
    /\ LET p  == pipelines[k]
           s  == [State EXCEPT !.pipelines = RemoveAt(@, k)]
       IN  Commit(QueueManager(
             CASE reply = "reject"  -> ProcessFileCatch(s, p, LibraryError)
               [] reply = "invalid" -> ProcessFileCatch(s, p, InvalidDataFormat)
               [] OTHER             -> ProcessFileResolved(s, p)))
    /\ UNCHANGED <<sortConfig, previewer, selectedIds, isAnalyzingJob, analysis,
                   jobAlert, nextUid, cancelled>>

(***************************************************************************)
(* Handlers of the ingestion queue.                                        *)
(***************************************************************************)
\* the file lists a user hands over: one file, or two files of different names
FileLists ==
    {<<n>> : n \in FileNames} \cup
    ({<<n, m>> : n \in FileNames, m \in FileNames} \ {<<n, n>> : n \in FileNames})

\* a handleFiles that admits every file handed over, whatever the status map holds
handleFilesUnfiltered(files) ==
    LET newFiles == [i \in 1..Len(files) |-> [name |-> files[i], uid |-> nextUid + i]]
    IN  /\ nextUid + Len(files) <= MaxFiles
        /\ nextUid' = nextUid + Len(files)
        /\ Commit(QueueManager([State EXCEPT !.fileQueue = @ \o newFiles]))
        /\ UNCHANGED <<sortConfig, previewer, selectedIds, isAnalyzingJob, analysis,
                       jobAlert, cancelled>>

handleFiles(files) ==
    LET names    == SelectSeq(files, LAMBDA n : fileStatuses[n].status = "none")
        newFiles == [i \in 1..Len(names) |-> [name |-> names[i], uid |-> nextUid + i]]
    IN  /\ nextUid + Len(names) <= MaxFiles
        /\ nextUid' = nextUid + Len(names)
        /\ Commit(QueueManager([State EXCEPT !.fileQueue = @ \o newFiles]))
        /\ UNCHANGED <<sortConfig, previewer, selectedIds, isAnalyzingJob, analysis,
                       jobAlert, cancelled>>

\* the previewer is rendered: currentFileForPreview && !isAutoParse
PreviewerShown == currentFileForPreview # NoFile /\ ~isAutoParse

\* ResumePreviewer.handleConfirm: the sorted selected pages of a paginated
\* document (the button is disabled while none is selected), no option otherwise
ConfirmOptions(file) ==
    IF IsPdf(FileType(file.name))
    THEN {SortedSeq(sel) : sel \in (SUBSET (1..NumPages(file.name))) \ {{}}}
    ELSE {<<>>}

handlePreviewConfirm(pages) ==
    /\ PreviewerShown
    /\ Len(pipelines) < MaxInFlight
    /\ pages \in ConfirmOptions(currentFileForPreview)
    /\ Commit(QueueManager(processFile(State, currentFileForPreview, pages)))
    /\ UNCHANGED <<sortConfig, previewer, selectedIds, isAnalyzingJob, analysis,
                   jobAlert, nextUid, cancelled>>

handlePreviewCancel ==
    /\ PreviewerShown
    /\ cancelled' = cancelled \cup {currentFileForPreview}
    /\ Commit(QueueManager(
         [State EXCEPT !.fileQueue = IF @ = <<>> THEN <<>> ELSE Tail(@),
                       !.currentFileForPreview = NoFile]))
    /\ UNCHANGED <<sortConfig, previewer, selectedIds, isAnalyzingJob, analysis,
                   jobAlert, nextUid>>

\* the Auto-parse checkbox: setIsAutoParse(!isAutoParse)
toggleAutoParse ==
    /\ Commit(QueueManager([State EXCEPT !.isAutoParse = ~@]))
    /\ UNCHANGED <<sortConfig, previewer, selectedIds, isAnalyzingJob, analysis,
                   jobAlert, nextUid, cancelled>>

\* "Clear All Data", shown with the results section (candidates.length > 0)
handleClear ==
    /\ candidates # <<>>
    /\ selectedIds' = {}
    /\ sortConfig' = NoSort
    /\ Commit(QueueManager(
         [State EXCEPT !.candidates = <<>>,
                       !.fileStatuses = [n \in FileNames |-> NoStatus],
                       !.fileQueue = <<>>,
                       !.currentFileForPreview = NoFile]))
    /\ UNCHANGED <<previewer, isAnalyzingJob, analysis, jobAlert, nextUid, cancelled>>

(***************************************************************************)
(* Match analysis.                                                         *)
(***************************************************************************)
\* a score and a reason the AI gives
SomeScore == 80
SomeReason == "Matches: React. Missing: AWS"

\* what ai.models.generateContent can do for a match request: reject, resolve
\* with a text that is not JSON, or resolve with a JSON object that holds both
\* keys, only the score, or none ("{}", also read for an empty text)
MatchReplies ==
    {[kind |-> "reject",  matchScore |-> UndefinedScore, matchReason |-> UndefinedReason],
     [kind |-> "invalid", matchScore |-> UndefinedScore, matchReason |-> UndefinedReason],
     [kind |-> "json",    matchScore |-> SomeScore,      matchReason |-> SomeReason],
     [kind |-> "json",    matchScore |-> SomeScore,      matchReason |-> UndefinedReason],
     [kind |-> "json",    matchScore |-> UndefinedScore, matchReason |-> UndefinedReason]}

NoReply == [kind |-> "pending", matchScore |-> UndefinedScore, matchReason |-> UndefinedReason]

\* the result of the catch block of analyzeCandidateMatch
FailedMatchScore == 0
FailedMatchReason == "Failed to analyze match."

\* an analyzeCandidateMatch without its catch block
analyzeCandidateMatchUncaught(candidate, reply) ==
    [rejected |-> reply.kind # "json", matchScore |-> reply.matchScore,
     matchReason |-> reply.matchReason]

\* analyzeCandidateMatch: how the promise settles for an AI reply
analyzeCandidateMatch(candidate, reply) ==
    IF reply.kind = "json"
    THEN [rejected |-> FALSE, matchScore |-> reply.matchScore,
          matchReason |-> reply.matchReason]
    ELSE [rejected |-> FALSE, matchScore |-> FailedMatchScore,
          matchReason |-> FailedMatchReason]

\* no handleJobAnalysis invocation is suspended
Idle == [snapshot |-> <<>>, replies |-> <<>>, pending |-> {}]

\* the button is disabled while isAnalyzing, without a job description and
\* without candidates; the job description itself does not enter the state
handleJobAnalysis ==
    /\ ~isAnalyzingJob
    /\ candidates # <<>>
    /\ isAnalyzingJob' = TRUE
    /\ analysis' = [snapshot |-> candidates,
                    replies  |-> [i \in 1..Len(candidates) |-> NoReply],
                    pending  |-> 1..Len(candidates)]
    /\ UNCHANGED <<sortConfig, previewer, candidates, fileStatuses, fileQueue,
                   currentFileForPreview,
                   isAutoParse, selectedIds, pipelines, jobAlert, nextId, nextUid,
                   presented, dispatched, finished, cancelled>>

\* an augmentation that builds the scored record anew, not shortlisted
AnalyzedAnew(candidate, reply) ==
    LET result == analyzeCandidateMatch(candidate, reply)
    IN  [candidate EXCEPT !.matchScore = result.matchScore,
                          !.matchReason = result.matchReason,
                          !.isShortlisted = FALSE]

\* { ...candidate, matchScore: result.matchScore, matchReason: result.matchReason }
Analyzed(candidate, reply) ==
    LET result == analyzeCandidateMatch(candidate, reply)
    IN  [candidate EXCEPT !.matchScore = result.matchScore,
                          !.matchReason = result.matchReason]

\* analysisPromises, once every call has settled
AnalyzedCandidates(an) ==
    [i \in 1..Len(an.snapshot) |-> Analyzed(an.snapshot[i], an.replies[i])]

\* The AI call for candidate i of the snapshot settled.  Promise.all rejects
\* with the first rejected promise (catch: alert) and resolves with the last
\* fulfilled one (setCandidates(analyzedCandidates)); finally in both cases.
MatchReplied(i, reply) ==
    /\ i \in analysis.pending
    /\ reply \in MatchReplies
    /\ LET an == [analysis EXCEPT !.replies[i] = reply, !.pending = @ \ {i}]
       IN  IF analyzeCandidateMatch(analysis.snapshot[i], reply).rejected
           THEN /\ jobAlert' = TRUE
                /\ isAnalyzingJob' = FALSE
                /\ analysis' = Idle
                /\ UNCHANGED <<candidates, sortConfig>>
           ELSE IF an.pending = {}
           THEN /\ candidates' = AnalyzedCandidates(an)
                /\ sortConfig' = [key |-> "matchScore", direction |-> "descending"]
                /\ isAnalyzingJob' = FALSE
                /\ analysis' = Idle
                /\ UNCHANGED jobAlert
           ELSE /\ analysis' = an
                /\ UNCHANGED <<candidates, isAnalyzingJob, jobAlert, sortConfig>>
    /\ UNCHANGED <<previewer, fileStatuses, fileQueue, currentFileForPreview, isAutoParse,
                   selectedIds, pipelines, nextId, nextUid, presented, dispatched,
                   finished, cancelled>>

(***************************************************************************)
(* Selection and bulk actions.                                             *)
(***************************************************************************)
handleToggleSelect(id) ==
    /\ id \in {candidates[i].id : i \in 1..Len(candidates)}
    /\ selectedIds' = IF id \in selectedIds THEN selectedIds \ {id}
                      ELSE selectedIds \cup {id}
    /\ UNCHANGED <<sortConfig, previewer, candidates, fileStatuses, fileQueue,
                   currentFileForPreview,
                   isAutoParse, isAnalyzingJob, pipelines, analysis, jobAlert,
                   nextId, nextUid, presented, dispatched, finished, cancelled>>

\* the bulk buttons are shown with the results while selectedIds.size > 0
BulkToolbarShown == candidates # <<>> /\ selectedIds # {}

handleBulkDelete ==
    /\ BulkToolbarShown
    /\ candidates' = SelectSeq(candidates, LAMBDA c : c.id \notin selectedIds)
    /\ selectedIds' = {}
    /\ UNCHANGED <<sortConfig, previewer, fileStatuses, fileQueue,
                   currentFileForPreview, isAutoParse,
                   isAnalyzingJob, pipelines, analysis, jobAlert, nextId, nextUid,
                   presented, dispatched, finished, cancelled>>

handleBulkShortlist ==
    /\ BulkToolbarShown
    /\ candidates' = [i \in 1..Len(candidates) |->
                        IF candidates[i].id \in selectedIds
                        THEN [candidates[i] EXCEPT !.isShortlisted = TRUE]
                        ELSE candidates[i]]
    /\ selectedIds' = {}
    /\ UNCHANGED <<sortConfig, previewer, fileStatuses, fileQueue,
                   currentFileForPreview, isAutoParse,
                   isAnalyzingJob, pipelines, analysis, jobAlert, nextId, nextUid,
                   presented, dispatched, finished, cancelled>>

(***************************************************************************)
(* The specification.                                                      *)
(***************************************************************************)
Init ==
    /\ candidates = <<>>
    /\ fileStatuses = [n \in FileNames |-> NoStatus]
    /\ fileQueue = <<>>
    /\ currentFileForPreview = NoFile
    /\ isAutoParse = FALSE
    /\ selectedIds = {}
    /\ isAnalyzingJob = FALSE
    /\ pipelines = <<>>
    /\ analysis = Idle
    /\ jobAlert = FALSE
    /\ nextId = 0
    /\ nextUid = 0
    /\ presented = {}
    /\ dispatched = {}
    /\ finished = {}
    /\ cancelled = {}
    /\ sortConfig = NoSort
    /\ selectedPages = {}
    /\ manualPageInput = <<>>

PipelineIds == 1..(MaxFiles + MaxInFlight)

\* the ingestion queue: uploads, preview answers, mode, clear-all and the
\* extraction pipelines
Next ==
    \/ \E files \in FileLists : handleFiles(files)
    \/ \E pages \in ConfirmOptions(currentFileForPreview) : handlePreviewConfirm(pages)
    \/ handlePreviewCancel
    \/ toggleAutoParse
    \/ handleClear
    \/ \E k \in PipelineIds, ok \in BOOLEAN : FileRead(k, ok)
    \/ \E k \in PipelineIds, context \in BOOLEAN : PageRendered(k, context)
    \/ \E k \in PipelineIds, reply \in AiReplies : AiReplied(k, reply)

Spec == Init /\ [][Next]_vars

\* the ingestion queue of a session in which "Clear All Data" is never used
NextNoClear ==
    \/ \E files \in FileLists : handleFiles(files)
    \/ \E pages \in ConfirmOptions(currentFileForPreview) : handlePreviewConfirm(pages)
    \/ handlePreviewCancel
    \/ toggleAutoParse
    \/ \E k \in PipelineIds, ok \in BOOLEAN : FileRead(k, ok)
    \/ \E k \in PipelineIds, context \in BOOLEAN : PageRendered(k, context)
    \/ \E k \in PipelineIds, reply \in AiReplies : AiReplied(k, reply)

SpecNoClear == Init /\ [][NextNoClear]_vars

\* the ingestion queue of a session that stays in manual mode: uploads,
\* confirms, cancels and the extraction pipelines
NextManual ==
    \/ \E files \in FileLists : handleFiles(files)
    \/ \E pages \in ConfirmOptions(currentFileForPreview) : handlePreviewConfirm(pages)
    \/ handlePreviewCancel
    \/ \E k \in PipelineIds, ok \in BOOLEAN : FileRead(k, ok)
    \/ \E k \in PipelineIds, context \in BOOLEAN : PageRendered(k, context)
    \/ \E k \in PipelineIds, reply \in AiReplies : AiReplied(k, reply)

SpecManual == Init /\ [][NextManual]_vars

\* the ingestion queue of a session that stays in auto-parse mode: the
\* checkbox was ticked before the first upload, no previewer is ever shown
InitAuto ==
    /\ candidates = <<>>
    /\ fileStatuses = [n \in FileNames |-> NoStatus]
    /\ fileQueue = <<>>
    /\ currentFileForPreview = NoFile
    /\ isAutoParse = TRUE
    /\ selectedIds = {}
    /\ isAnalyzingJob = FALSE
    /\ pipelines = <<>>
    /\ analysis = Idle
    /\ jobAlert = FALSE
    /\ nextId = 0
    /\ nextUid = 0
    /\ presented = {}
    /\ dispatched = {}
    /\ finished = {}
    /\ cancelled = {}
    /\ sortConfig = NoSort
    /\ selectedPages = {}
    /\ manualPageInput = <<>>

NextAuto ==
    \/ \E files \in FileLists : handleFiles(files)
    \/ \E k \in PipelineIds, ok \in BOOLEAN : FileRead(k, ok)
    \/ \E k \in PipelineIds, context \in BOOLEAN : PageRendered(k, context)
    \/ \E k \in PipelineIds, reply \in AiReplies : AiReplied(k, reply)

SpecAuto == InitAuto /\ [][NextAuto]_vars

\* the match analysis over the collection that auto-parse ingestion fills,
\* with the selection and the bulk actions
NextMatch ==
    \/ \E files \in FileLists : handleFiles(files)
    \/ toggleAutoParse
    \/ \E k \in PipelineIds, ok \in BOOLEAN : FileRead(k, ok)
    \/ \E k \in PipelineIds, context \in BOOLEAN : PageRendered(k, context)
    \/ \E k \in PipelineIds, reply \in AiReplies : AiReplied(k, reply)
    \/ handleJobAnalysis
    \/ \E i \in 1..(MaxFiles * MaxInFlight), reply \in MatchReplies : MatchReplied(i, reply)
    \/ \E id \in 1..(MaxFiles * MaxInFlight) : handleToggleSelect(id)
    \/ handleBulkDelete
    \/ handleBulkShortlist

SpecMatch == Init /\ [][NextMatch]_vars

(***************************************************************************)
(* Properties.                                                             *)
(***************************************************************************)
\* the match analysis over any collection that auto-parse ingestion has left
\* behind: candidate i was extracted from file i
SupportedNames ==
    {n \in FileNames : IsImage(FileType(n)) \/ IsPdf(FileType(n)) \/ IsDoc(FileType(n))}

InitScore ==
    \E n \in 1..MaxCandidates :
      \E names \in [1..n -> SupportedNames] :
        LET files == [i \in 1..n |-> [name |-> names[i], uid |-> i]] IN
        /\ candidates = [i \in 1..n |-> FinalCandidate(i, files[i])]
        /\ fileStatuses = [m \in FileNames |->
              IF m \in Range(names) THEN Success ELSE NoStatus]
        /\ fileQueue = <<>>
        /\ currentFileForPreview = NoFile
        /\ isAutoParse = TRUE
        /\ selectedIds = {}
        /\ isAnalyzingJob = FALSE
        /\ pipelines = <<>>
        /\ analysis = Idle
        /\ jobAlert = FALSE
        /\ nextId = n
        /\ nextUid = n
        /\ presented = {}
        /\ dispatched = Range(files)
        /\ finished = Range(files)
        /\ cancelled = {}
        /\ sortConfig = NoSort
        /\ selectedPages = {}
        /\ manualPageInput = <<>>

NextScore ==
    \/ handleJobAnalysis
    \/ \E i \in 1..MaxCandidates, reply \in MatchReplies : MatchReplied(i, reply)

SpecScore == InitScore /\ [][NextScore]_vars

CandidateIndices == 1..Len(candidates)
QueueIndices == 1..Len(fileQueue)

\* C1: one file yields at most one Candidate: the collection never holds two
\* Candidates created from the same uploaded File object.
C1_OneCandidatePerFile ==
    \A i \in CandidateIndices, j \in CandidateIndices :
        i # j => candidates[i].file # candidates[j].file

\* C2: dedup by name in the queue: a name uploaded twice, the second time
\* before the first upload has completed, has exactly one queue entry, in
\* manual mode as in auto-parse mode; so no name ever has two queue entries.
C2_OneQueueEntryPerName ==
    \A n \in FileNames :
        Cardinality({i \in QueueIndices : fileQueue[i].name = n}) <= 1

\* C7: within one file the progress values written to its FileStatus entry
\* are integers in 0..100 and never decrease from dispatch to the terminal
\* status (the entry is removed only by clear-all).
C7_ProgressNeverDecreases ==
    /\ [](\A n \in FileNames : fileStatuses[n].progress \in 0..100)
    /\ [][\A n \in FileNames :
            (fileStatuses[n].status # "none" /\ fileStatuses'[n].status # "none")
                => fileStatuses'[n].progress >= fileStatuses[n].progress]_vars

\* C8: success and error are terminal: such an entry never changes again,
\* in particular never returns to parsing, until clear-all empties the map.
C8_TerminalIsFinal ==
    [][\A n \in FileNames :
          fileStatuses[n].status \in {"success", "error"}
              => \/ fileStatuses'[n] = fileStatuses[n]
                 \/ handleClear]_vars

\* C9: a cancelled file never reaches the extractor: no rendering or AI call
\* is made for it (it is never passed to processFile, so no FileStatus entry
\* is marked parsing for it) and no Candidate is created from it.
C9_CancelledNeverExtracted ==
    \A f \in cancelled :
        /\ f \notin dispatched
        /\ \A i \in CandidateIndices : candidates[i].file # f.uid

\* the extraction of invocation k fails in this step with this cause: the
\* read of the file is rejected, the page loop ends with no page rendered,
\* the AI call is rejected, or its text is not JSON
ExtractionFails(k, cause) ==
    LET p == pipelines[k]
        ptp == PagesToParse(p.pages, NumPages(p.file.name))
    IN  \/ /\ p.pc = "read"
           /\ cause = IF IsImage(FileType(p.file.name)) THEN ReaderError ELSE LibraryError
           /\ FileRead(k, FALSE)
        \/ /\ p.pc = "render"
           /\ cause = NoPagesRendered
           /\ p.processedPages = 0
           /\ NextValid(ptp, p.idx + 1, NumPages(p.file.name)) > Len(ptp)
           /\ PageRendered(k, FALSE)
        \/ /\ p.pc = "ai"
           /\ cause = LibraryError
           /\ AiReplied(k, "reject")
        \/ /\ p.pc = "ai"
           /\ cause = InvalidDataFormat
           /\ AiReplied(k, "invalid")

FailureCauses ==
    {ReaderError, LibraryError, NoPagesRendered, InvalidDataFormat}

\* after the failure of file with the message: the status is error with the
\* message and progress 100, the file has left the queue
FailureRecorded(file, message) ==
    /\ fileStatuses'[file.name] =
          [status |-> "error", progress |-> 100, error |-> message]
    /\ \A i \in 1..Len(fileQueue') : fileQueue'[i].uid # file.uid

\* C10: whenever the extraction of a file fails (unsupported file type,
\* render failure, AI transport failure or invalid AI response), the file's
\* FileStatus becomes error with the failure's message and progress 100, the
\* file is removed from the queue and the Candidate collection is unchanged.
C10_FailureBecomesErrorStatus ==
    [][/\ \A k \in 1..Len(pipelines), cause \in FailureCauses :
            ExtractionFails(k, cause)
                => /\ FailureRecorded(pipelines[k].file,
                        IF cause = ReaderError
                        THEN <<"An unknown error occurred during parsing.">>
                        ELSE <<"AI processing failed: ">> \o cause.message)
                   /\ candidates' = candidates
       /\ \A f \in dispatched' \ dispatched :
            ~(IsImage(FileType(f.name)) \/ IsPdf(FileType(f.name)) \/ IsDoc(FileType(f.name)))
                => /\ FailureRecorded(f,
                        <<"AI processing failed: ", "Unsupported file type: ", FileType(f.name)>>)
                   /\ \A i \in 1..Len(candidates') : candidates'[i].file # f.uid
      ]_vars

\* every kind of failure has been recorded, next to an extracted Candidate
C10_Witness ==
    /\ candidates # <<>>
    /\ fileStatuses["d.txt"].status = "error"
    /\ fileStatuses["a.pdf"] = ErrorStatus(WrapError(NoPagesRendered))
    /\ fileQueue = <<>>

\* the files of the queue and of the preview
Queued == (Range(fileQueue) \cup {currentFileForPreview}) \ {NoFile}

\* C3: in manual mode, uploading two files admits both to the queue but only
\* the first becomes awaiting-preview; confirming it moves it to parsing and
\* then to a terminal status; and a file becomes awaiting-preview only after
\* every queued file presented before it has been confirmed and has reached
\* its terminal status, or has been cancelled.
C3_ManualOneAtATime ==
    [][(~isAutoParse /\ ~isAutoParse') =>
        /\ \A n, m \in FileNames :
              (/\ handleFiles(<<n, m>>)
               /\ n # m /\ fileQueue = <<>>
               /\ fileStatuses[n].status = "none" /\ fileStatuses[m].status = "none")
              => /\ Len(fileQueue') = 2
                 /\ fileQueue'[1].name = n /\ fileQueue'[2].name = m
                 /\ currentFileForPreview' = fileQueue'[1]
                 /\ presented' = presented \cup {fileQueue'[1]}
        /\ \A pages \in ConfirmOptions(currentFileForPreview) :
              handlePreviewConfirm(pages)
              => /\ currentFileForPreview \in dispatched'
                 /\ fileStatuses'[currentFileForPreview.name].status
                        \in {"parsing", "success", "error"}
        /\ \A f \in finished' \ finished :
              fileStatuses'[f.name].status \in {"success", "error"}
        /\ (currentFileForPreview' # currentFileForPreview
                /\ currentFileForPreview' # NoFile)
              => /\ currentFileForPreview' = Head(fileQueue')
                 /\ \A f \in (presented \cap Queued) \ {currentFileForPreview'} :
                       \/ f \in cancelled'
                       \/ /\ f \in dispatched' /\ f \in finished'
                          /\ fileStatuses'[f.name].status \in {"success", "error"}
      ]_vars

\* the files that wait in the queue behind a file whose extraction ends
OthersQueued(file) == Range(fileQueue) \ {file}

\* C4: when the extraction of a file fails, every other file still in the
\* queue stays in the queue until it is dispatched (auto-parse mode) or
\* presented for preview (manual mode).
C4_FailureKeepsOthersQueued ==
    [][/\ \A k \in 1..Len(pipelines), cause \in FailureCauses :
            ExtractionFails(k, cause)
                => \A g \in OthersQueued(pipelines[k].file) :
                       g \in Range(fileQueue') \cup dispatched' \cup presented'
       /\ \A f \in dispatched' \ dispatched :
            ~(IsImage(FileType(f.name)) \/ IsPdf(FileType(f.name)) \/ IsDoc(FileType(f.name)))
                => \A g \in OthersQueued(f) :
                       g \in Range(fileQueue') \cup dispatched' \cup presented'
      ]_vars

\* what the collection is after a match analysis over snapshot with replies
Scored(snapshot, replies) ==
    [j \in 1..Len(snapshot) |->
        IF replies[j].kind = "json"
        THEN [snapshot[j] EXCEPT !.matchScore = replies[j].matchScore,
                                 !.matchReason = replies[j].matchReason]
        ELSE [snapshot[j] EXCEPT !.matchScore = 0,
                                 !.matchReason = "Failed to analyze match."]]

\* C5: match scoring isolates per-candidate failures: whatever subset of the
\* AI calls fails, the analysis ends without throwing (no alert), the failing
\* candidates get matchScore 0 and matchReason "Failed to analyze match.", and
\* every other candidate gets the matchScore and matchReason the AI returned.
C5_MatchFailuresIsolated ==
    [][\A i \in analysis.pending, reply \in MatchReplies :
          MatchReplied(i, reply)
              => /\ jobAlert' = FALSE
                 /\ analysis.pending = {i}
                       => /\ ~isAnalyzingJob'
                          /\ candidates' = Scored(analysis.snapshot,
                                                  [analysis.replies EXCEPT ![i] = reply])
                 /\ analysis.pending # {i}
                       => /\ isAnalyzingJob'
                          /\ candidates' = candidates
      ]_vars

\* an analysis of two candidates ended: the call of the first failed, the
\* call of the second returned a score and a reason
C5_Witness ==
    /\ ~isAnalyzingJob
    /\ ~jobAlert
    /\ Len(candidates) = 2
    /\ candidates[1].matchScore = 0
    /\ candidates[1].matchReason = "Failed to analyze match."
    /\ candidates[2].matchScore = SomeScore
    /\ candidates[2].matchReason = SomeReason

\* C6: when a match analysis completes it changes only matchScore and
\* matchReason of the candidates of the collection: no candidate appended,
\* deleted or shortlisted while the analysis was in flight is lost, restored
\* or reset.
C6_AnalysisKeepsCollection ==
    [][(isAnalyzingJob /\ ~isAnalyzingJob')
          => /\ Len(candidates') = Len(candidates)
             /\ \A i \in CandidateIndices :
                   /\ candidates'[i].id = candidates[i].id
                   /\ candidates'[i].isShortlisted = candidates[i].isShortlisted
      ]_vars

\* the extraction of invocation k succeeds in this step: the AI call resolved
\* with a text that JSON.parse accepts
ExtractionSucceeds(k) ==
    /\ pipelines[k].pc = "ai"
    /\ AiReplied(k, "json") \/ AiReplied(k, "empty")

\* C11: whenever the extraction of a file succeeds, the file's FileStatus
\* becomes success with progress 100 and exactly one Candidate is appended to
\* the end of the collection, with fileName equal to the file's name and
\* isShortlisted = false; no existing Candidate is changed.
C11_SuccessAppendsOneCandidate ==
    [][\A k \in 1..Len(pipelines) :
          ExtractionSucceeds(k)
              => /\ fileStatuses'[pipelines[k].file.name] =
                        [status |-> "success", progress |-> 100, error |-> <<>>]
                 /\ Len(candidates') = Len(candidates) + 1
                 /\ SubSeq(candidates', 1, Len(candidates)) = candidates
                 /\ candidates'[Len(candidates')].fileName = pipelines[k].file.name
                 /\ candidates'[Len(candidates')].file = pipelines[k].file.uid
                 /\ candidates'[Len(candidates')].isShortlisted = FALSE
      ]_vars

\* a second extraction succeeded: its Candidate follows the first one
C11_Witness ==
    /\ Len(candidates) = 2
    /\ candidates[1].fileName = "b.png"
    /\ candidates[2].fileName = "a.pdf"
    /\ fileStatuses["a.pdf"].status = "success"
    /\ fileStatuses["b.png"].status = "success"

\* the names whose FileStatus is parsing
ParsingNames == {n \in FileNames : fileStatuses[n].status = "parsing"}

\* C12: manual mode serializes dispatch to one at a time: while the mode
\* stays manual at most one file has FileStatus parsing at any instant,
\* whatever the order of confirms, cancels and uploads.
C12_ManualOneParsing ==
    ~isAutoParse => Cardinality(ParsingNames) <= 1

\* C13: in auto-parse mode the dispatch of a later file does not wait for an
\* earlier file to reach a terminal status, so that several files can be
\* parsing at once: every file admitted to the queue has been dispatched.
C13_AutoDispatchDoesNotWait ==
    isAutoParse => \A i \in QueueIndices : fileQueue[i] \in dispatched

\* the invocations of processFile that are in flight for file
InFlight(file) == {k \in 1..Len(pipelines) : pipelines[k].file = file}

Admitted == Queued \cup dispatched

\* the four states of an admitted file
InPreview(file) == PreviewerShown /\ currentFileForPreview = file
IsParsing(file) == InFlight(file) # {}
IsTerminal(file) == file \in finished /\ InFlight(file) = {}
IsQueued(file) ==
    /\ file \in Range(fileQueue)
    /\ ~InPreview(file) /\ ~IsParsing(file) /\ file \notin finished

\* C15: at every instant each admitted file is in exactly one of the states
\* queued, in-preview, parsing, terminal: a file is never both pending
\* preview and parsing, and never parsing or terminal while another pipeline
\* for the same file is still pending.
C15_ExactlyOneFileState ==
    \A f \in Admitted :
        /\ Cardinality({st \in {"queued", "in-preview", "parsing", "terminal"} :
              \/ st = "queued" /\ IsQueued(f)
              \/ st = "in-preview" /\ InPreview(f)
              \/ st = "parsing" /\ IsParsing(f)
              \/ st = "terminal" /\ IsTerminal(f)}) = 1
        /\ Cardinality(InFlight(f)) <= 1
        /\ f \in finished => InFlight(f) = {}

\* the files admitted by the step: those whose identity did not exist before it
NewlyAdmitted ==
    {f \in Range(fileQueue') \cup dispatched' \cup presented' : f.uid > nextUid}

\* C16: a file handed over under a name that has a FileStatus entry (parsing,
\* success or error) is not admitted: every file a step admits to the queue
\* has a name without an entry in the status map before the step.
C16_StatusedNameNotReadmitted ==
    [][\A f \in NewlyAdmitted : fileStatuses[f.name].status = "none"]_vars

\* every name has an entry (one succeeded, one failed, one is parsing), each
\* from the one file admitted under it: whatever is handed over now is ignored
C16_Witness ==
    /\ fileStatuses["a.pdf"].status = "success"
    /\ fileStatuses["d.txt"].status = "error"
    /\ fileStatuses["b.png"].status = "parsing"
    /\ nextUid = 3
    /\ \A n \in FileNames : Cardinality({f \in Admitted : f.name = n}) = 1
    /\ \A files \in FileLists : ENABLED handleFiles(files)

\* the file shown in the previewer has been neither confirmed nor dispatched
AwaitingPreview(file) ==
    PreviewerShown /\ currentFileForPreview = file /\ file \notin dispatched

\* the queued files no processFile invocation was started for, in queue order
NotYetDispatched(queue, started) ==
    SelectSeq(queue, LAMBDA f : f \notin started)

\* C17: the mode is read when the Queue Manager decides, not when a file is
\* admitted. Switching auto-parse on while a file awaits preview dispatches
\* that file in the same step, with no page selection (all pages). Switching
\* it off dispatches nothing; from then on a file is dispatched only after it
\* was presented, and whenever files are queued and the head is not being
\* parsed, the previewer shows the first queued file not yet dispatched.
C17_ModeReadAtDispatch ==
    /\ [][(~isAutoParse /\ isAutoParse' /\ AwaitingPreview(currentFileForPreview))
            => /\ currentFileForPreview \in dispatched'
               /\ currentFileForPreview \notin cancelled'
               /\ \A k \in 1..Len(pipelines') :
                     pipelines'[k].file = currentFileForPreview
                        => pipelines'[k].pages = <<>>]_vars
    /\ [][(isAutoParse /\ ~isAutoParse') => dispatched' = dispatched]_vars
    /\ [][~isAutoParse' => \A f \in dispatched' \ dispatched : f \in presented]_vars
    /\ [](  (~isAutoParse /\ NotYetDispatched(fileQueue, dispatched) # <<>>
              /\ fileStatuses[Head(fileQueue).name].status # "parsing")
           => /\ PreviewerShown
              /\ currentFileForPreview = Head(NotYetDispatched(fileQueue, dispatched)))

\* C18: every Candidate of the collection has matchScore and matchReason set
\* together or absent together, whatever the AI answered to a match request.
C18_ScoreAndReasonTogether ==
    \A i \in CandidateIndices :
        (candidates[i].matchScore = UndefinedScore)
            <=> (candidates[i].matchReason = UndefinedReason)

(***************************************************************************)
(* The content of an AI extraction response and what parseResume makes of  *)
(* it.  A text is the sequence of its characters; a JSON value carries its *)
(* type.                                                                   *)
(***************************************************************************)
Undefined  == [type |-> "undefined", val |-> <<>>]
JsonNull   == [type |-> "null", val |-> <<>>]
Str(chars) == [type |-> "string", val |-> chars]
Num(n)     == [type |-> "number", val |-> <<n>>]
Arr(items) == [type |-> "array", val |-> items]
\* an object: fields maps each key it has to a JSON value
Obj(fields) == [type |-> "object", val |-> fields]

\* the keys an object spread copies out of a value (none for null, a number)
OwnKeys(v) == IF v.type = "object" THEN DOMAIN v.val ELSE {}

\* v.key for a value that is neither null nor undefined
GetProp(v, key) == IF key \in OwnKeys(v) THEN v.val[key] ELSE Undefined

\* JavaScript truthiness
Truthy(v) ==
    CASE v.type \in {"undefined", "null"} -> FALSE
      [] v.type = "string"                -> v.val # <<>>
      [] v.type = "number"                -> v.val # <<0>>
      [] OTHER                            -> TRUE

DigitChars == {"0", "1", "2", "3", "4", "5", "6", "7", "8", "9"}
\* \s
Whitespace == {" "}

DigitValue(c) ==
    CASE c = "0" -> 0 [] c = "1" -> 1 [] c = "2" -> 2 [] c = "3" -> 3 [] c = "4" -> 4
      [] c = "5" -> 5 [] c = "6" -> 6 [] c = "7" -> 7 [] c = "8" -> 8 [] c = "9" -> 9

\* String.prototype.toLowerCase, for the upper-case letters the texts use
toLowerCase(text) ==
    [i \in 1..Len(text) |->
        CASE text[i] = "Y" -> "y" [] text[i] = "M" -> "m" [] text[i] = "L" -> "l"
          [] text[i] = "P" -> "p" [] text[i] = "A" -> "a" [] text[i] = "K" -> "k"
          [] OTHER -> text[i]]

RECURSIVE RunEnd(_, _, _)
\* the first index from i on whose character is not in chars (Len + 1 if none)
RunEnd(text, i, chars) ==
    IF i > Len(text) \/ text[i] \notin chars THEN i ELSE RunEnd(text, i + 1, chars)

RECURSIVE LastInk(_, _)
\* the last index up to i whose character is no whitespace (0 if none)
LastInk(text, i) ==
    IF i = 0 \/ text[i] \notin Whitespace THEN i ELSE LastInk(text, i - 1)

\* String.prototype.trim
trim(text) == SubSeq(text, RunEnd(text, 1, Whitespace), LastInk(text, Len(text)))

RECURSIVE IntOf(_, _)
\* the integer that the first n digits of a sequence of digits denote
IntOf(digits, n) ==
    IF n = 0 THEN 0 ELSE 10 * IntOf(digits, n - 1) + DigitValue(digits[n])

RECURSIVE Pow10(_)
Pow10(n) == IF n = 0 THEN 1 ELSE 10 * Pow10(n - 1)

\* (\d+(\.\d+)?) matched greedily at the digit at index i: the index after it
NumberEnd(text, i) ==
    LET j == RunEnd(text, i, DigitChars)
    IN  IF j + 1 <= Len(text) /\ text[j] = "." /\ text[j + 1] \in DigitChars
        THEN RunEnd(text, j + 2, DigitChars)
        ELSE j

\* parseFloat of digits, or of digits "." digits, as the fraction num / den
parseFloat(chars) ==
    LET digits == SelectSeq(chars, LAMBDA c : c \in DigitChars)
        point  == RunEnd(chars, 1, DigitChars)
    IN  [num |-> IntOf(digits, Len(digits)),
         den |-> IF point > Len(chars) THEN 1 ELSE Pow10(Len(chars) - point)]

\* the number at index i is followed by optional whitespace and the letter unit
UnitFollows(text, i, unit) ==
    LET k == RunEnd(text, NumberEnd(text, i), Whitespace)
    IN  k <= Len(text) /\ text[k] = unit

RECURSIVE UnitMatch(_, _, _)
\* text.match(/(\d+(\.\d+)?)\s*(u|...)/) for alternatives that all begin with
\* the letter unit, tried from index i on: where the leftmost match begins
\* (0 for null)
UnitMatch(text, unit, i) ==
    IF i > Len(text) THEN 0
    ELSE IF text[i] \in DigitChars /\ UnitFollows(text, i, unit) THEN i
    ELSE UnitMatch(text, unit, i + 1)

\* text.match(/^(\d+(\.\d+)?)$/): 1 if the text is a number, 0 for null
BareNumberMatch(text) ==
    IF text # <<>> /\ text[1] \in DigitChars /\ NumberEnd(text, 1) = Len(text) + 1
    THEN 1 ELSE 0

\* parseFloat(match[1]) for a match that begins at index i; 0 without a match
Captured(text, i) ==
    IF i = 0 THEN [num |-> 0, den |-> 1]
    ELSE parseFloat(SubSeq(text, i, NumberEnd(text, i) - 1))

\* a parser that takes the months only when the text holds no years
TenthsOfYearsExclusive(lowerExp) ==
    LET yearMatches  == UnitMatch(lowerExp, "y", 1)
        monthMatches == UnitMatch(lowerExp, "m", 1)
        numMatch     == IF yearMatches = 0 /\ monthMatches = 0
                        THEN BareNumberMatch(lowerExp) ELSE 0
        years  == Captured(lowerExp, IF yearMatches # 0 THEN yearMatches ELSE numMatch)
        months == Captured(lowerExp, IF yearMatches # 0 THEN 0 ELSE monthMatches)
    IN  Round(10 * (years.num * 12 * months.den + months.num * years.den),
              years.den * 12 * months.den)

\* the body of parseExperienceToNumber after lowerExp is computed: the years
\* in tenths (Math.round(totalYears * 10), which the code divides by 10)
TenthsOfYears(lowerExp) ==
    LET yearMatches  == UnitMatch(lowerExp, "y", 1)
        monthMatches == UnitMatch(lowerExp, "m", 1)
        numMatch     == IF yearMatches = 0 /\ monthMatches = 0
                        THEN BareNumberMatch(lowerExp) ELSE 0
        years  == Captured(lowerExp, IF yearMatches # 0 THEN yearMatches ELSE numMatch)
        months == Captured(lowerExp, monthMatches)
    IN  Round(10 * (years.num * 12 * months.den + months.num * years.den),
              years.den * 12 * months.den)

\* parseExperienceToNumber for a string; lowerExp is computed once
ExperienceTenths(expString) ==
    CHOOSE tenths \in {TenthsOfYears(lowerExp) :
                          lowerExp \in {trim(toLowerCase(expString))}} : TRUE

\* parseExperienceToNumber for whatever the parsed JSON holds: 0 for a falsy
\* value; a truthy value that is no string has no toLowerCase (TypeError)
parseExperienceToNumber(v) ==
    IF ~Truthy(v) THEN [threw |-> FALSE, value |-> 0]
    ELSE IF v.type # "string" THEN [threw |-> TRUE, value |-> 0]
    ELSE [threw |-> FALSE, value |-> ExperienceTenths(v.val)]

\* resumeSchema.required
RequiredFields ==
    {"fullName", "email", "mobile", "totalExperience", "highestQualification",
     "currentLocation", "skills"}

\* the mobile numbers and the experience texts the AI gives
MobileTexts ==
    {<<"9", "8">>, <<"9", "-", "8">>, <<"9", " ", "8">>, <<"(", "9", ")">>, <<>>}
ExperienceTexts ==
    {<<"5", " ", "y", "r", "s", " ", "6", " ", "m">>, <<"3">>, <<>>}

\* a JSON object that follows resumeSchema
SchemaObject(mobile, experience) ==
    Obj([fullName             |-> Str(<<"N">>),
         email                |-> Str(<<"n", "@", "x">>),
         mobile               |-> Str(mobile),
         totalExperience      |-> Str(experience),
         highestQualification |-> Str(<<"Q">>),
         currentLocation      |-> Str(<<"L">>),
         skills               |-> Arr(<<Str(<<"S">>)>>)])

\* the object without one of its keys
Without(object, key) ==
    Obj([k \in DOMAIN object.val \ {key} |-> object.val[k]])

\* the object with a number where the schema asks for a string or a list
WithNumber(object, key) ==
    Obj([object.val EXCEPT ![key] = Num(7)])

SomeObject == SchemaObject(<<"9", "8">>, <<"3">>)

\* the JSON values a response text can denote
JsonValues ==
    {SchemaObject(m, <<"3">>) : m \in MobileTexts} \cup
    {SchemaObject(<<"9", "8">>, e) : e \in ExperienceTexts} \cup
    {Without(SomeObject, key) : key \in RequiredFields} \cup
    {WithNumber(SomeObject, key) : key \in RequiredFields} \cup
    {Obj(<<>>), JsonNull, Num(7)}

\* response.text: empty, some text that is not JSON, or the JSON text of a value
EmptyText   == [empty |-> TRUE,  json |-> FALSE, value |-> Undefined]
NotJsonText == [empty |-> FALSE, json |-> FALSE, value |-> Undefined]
JsonText(v) == [empty |-> FALSE, json |-> TRUE,  value |-> v]

\* what ai.models.generateContent does for an extraction request: reject, or
\* resolve with a response that has a text
AiResponses ==
    {[rejected |-> TRUE, text |-> EmptyText]} \cup
    {[rejected |-> FALSE, text |-> t] :
        t \in {EmptyText, NotJsonText} \cup {JsonText(v) : v \in JsonValues}}

\* JSON.parse(response.text || "{}")
JsonParse(text) ==
    IF text.empty THEN [threw |-> FALSE, value |-> Obj(<<>>)]
    ELSE IF ~text.json THEN [threw |-> TRUE, value |-> Undefined]
    ELSE [threw |-> FALSE, value |-> text.value]

\* reading a property of null, and calling toLowerCase on what is no string
NullPropertyError ==
    [isError |-> TRUE, message |-> <<"Cannot read properties of null">>]
NotAFunctionError ==
    [isError |-> TRUE, message |-> <<"expString.toLowerCase is not a function">>]

\* { id, ...parsedJson, totalExperience, relevantExperience, fileName,
\*   isShortlisted: false }; the numbers of years are kept in tenths.
\* History: parsedJson records the value the Candidate was made from.
finalCandidate(id, file, parsedJson, totalExperience, relevantExperience) ==
    LET base == FinalCandidate(id, file)
    IN  [key \in DOMAIN base \cup OwnKeys(parsedJson)
                   \cup {"totalExperience", "relevantExperience", "parsedJson"} |->
            CASE key = "totalExperience"    -> totalExperience
              [] key = "relevantExperience" -> relevantExperience
              [] key = "parsedJson"         -> parsedJson
              [] key \in {"fileName", "file", "isShortlisted"} -> base[key]
              [] key \in OwnKeys(parsedJson) -> parsedJson.val[key]
              [] OTHER -> base[key]]

\* parseResume from the settling of the AI call on: the Candidate it resolves
\* with, or the cause it rejects with
parseResume(file, id, response) ==
    LET parsed     == JsonParse(response.text)
        parsedJson == parsed.value
        total      == parseExperienceToNumber(GetProp(parsedJson, "totalExperience"))
        relevant   == parseExperienceToNumber(GetProp(parsedJson, "relevantExperience"))
    IN  IF response.rejected THEN [ok |-> FALSE, cause |-> LibraryError]
        ELSE IF parsed.threw THEN [ok |-> FALSE, cause |-> InvalidDataFormat]
        ELSE IF parsedJson = JsonNull THEN [ok |-> FALSE, cause |-> NullPropertyError]
        ELSE IF total.threw \/ relevant.threw
        THEN [ok |-> FALSE, cause |-> NotAFunctionError]
        ELSE [ok |-> TRUE,
              candidate |-> finalCandidate(id, file, parsedJson, total.value,
                                           relevant.value)]

\* the try block of processFile after parseResume resolved with newCandidate
ProcessFileStores(s, p, newCandidate) ==
    ProcessFileFinally(
        [s EXCEPT !.candidates = Append(@, newCandidate),
                  !.nextId = @ + 1,
                  !.fileStatuses[p.file.name] = Success], p)

\* The AI call of parseResume settled with this response.
AiResponded(k, response) ==
    /\ k \in 1..Len(pipelines)
    /\ pipelines[k].pc = "ai"
    /\ LET p   == pipelines[k]
           s   == [State EXCEPT !.pipelines = RemoveAt(@, k)]
           res == parseResume(p.file, s.nextId + 1, response)
       IN  Commit(QueueManager(
             IF res.ok THEN ProcessFileStores(s, p, res.candidate)
             ELSE ProcessFileCatch(s, p, res.cause)))
    /\ UNCHANGED <<sortConfig, previewer, selectedIds, isAnalyzingJob, analysis,
                   jobAlert, nextUid, cancelled>>

\* extraction in a session that stays in auto-parse mode, with the content of
\* the AI responses
NextParse ==
    \/ \E files \in FileLists : handleFiles(files)
    \/ \E k \in PipelineIds, ok \in BOOLEAN : FileRead(k, ok)
    \/ \E k \in PipelineIds, context \in BOOLEAN : PageRendered(k, context)
    \/ \E k \in PipelineIds, response \in AiResponses : AiResponded(k, response)

SpecParse == InitAuto /\ [][NextParse]_vars

\* String.prototype.replace(/\D/g, ""): the text without its non-digits
DigitsOnly(text) == SelectSeq(text, LAMBDA c : c \in DigitChars)

\* the AI call of invocation k resolves with a JSON object that holds a
\* mobile string, and parseResume resolves
ParsedWithMobile(k, response) ==
    /\ pipelines[k].pc = "ai"
    /\ ~response.rejected
    /\ response.text.json
    /\ GetProp(response.text.value, "mobile").type = "string"
    /\ parseResume(pipelines[k].file, nextId + 1, response).ok
    /\ AiResponded(k, response)

\* C19: after a successful parse the new Candidate's mobile is the mobile
\* string the AI returned with every non-digit character removed.
C19_MobileDigitsOnly ==
    [][\A k \in 1..Len(pipelines), response \in AiResponses :
          ParsedWithMobile(k, response)
             => candidates'[Len(candidates')].mobile
                  = Str(DigitsOnly(GetProp(response.text.value, "mobile").val))]_vars

\* the type resumeSchema gives a key
SchemaType(key) == IF key = "skills" THEN "array" ELSE "string"

\* the response text is empty or no JSON, or the value it denotes lacks a
\* required key or has a value of another type than the schema's under one
InvalidAiResponse(response) ==
    /\ ~response.rejected
    /\ \/ response.text.empty
       \/ ~response.text.json
       \/ \E key \in RequiredFields :
            GetProp(response.text.value, key).type # SchemaType(key)

\* C20: an AI response that is empty, not JSON, without a required field or
\* with a field of the wrong type makes the extraction fail: the file's status
\* becomes error and the collection gets no Candidate.
C20_InvalidResponseFails ==
    [][\A k \in 1..Len(pipelines), response \in AiResponses :
          (/\ pipelines[k].pc = "ai"
           /\ InvalidAiResponse(response)
           /\ AiResponded(k, response))
             => /\ fileStatuses'[pipelines[k].file.name].status = "error"
                /\ candidates' = candidates]_vars

(***************************************************************************)
(* The duration parser over the experience texts of AI responses.          *)
(***************************************************************************)
\* longest experience text drawn from the alphabet
MaxTextLen == 4

\* With the digits 1 and 2 and texts of this length, ten times the number of
\* years is never within rounding error of a half unless it is a multiple of
\* 0.25, which binary floating point holds exactly: exact arithmetic gives
\* what the code's floating-point arithmetic gives.
DurationChars == {"1", "2", ".", "y", "m", " ", "x"}

RECURSIVE TextsOver(_, _)
\* the texts of at most n characters
TextsOver(chars, n) ==
    IF n = 0 THEN {<<>>}
    ELSE LET shorter == TextsOver(chars, n - 1)
         IN  shorter \cup {Append(t, c) : t \in shorter, c \in chars}

FiveYearsSixMonths ==
    <<"5", " ", "y", "e", "a", "r", "s", " ", "6", " ", "m", "o", "n", "t", "h", "s">>
SixMonths == <<"6", " ", "m", "o", "n", "t", "h", "s">>
Garbage == <<"g", "a", "r", "b", "a", "g", "e">>

DurationTexts ==
    TextsOver(DurationChars, MaxTextLen)
        \cup {FiveYearsSixMonths, SixMonths, <<"3">>, Garbage, <<"2", " ", "Y", "r", "s">>}

\* schema-following responses with these experience texts
DurationResponses ==
    {[rejected |-> FALSE, text |-> JsonText(SchemaObject(<<"9", "8">>, e))] :
        e \in DurationTexts}

\* b.png was uploaded in auto-parse mode and read; its AI call is pending
InitDuration ==
    LET file == [name |-> "b.png", uid |-> 1] IN
    /\ candidates = <<>>
    /\ fileStatuses = [n \in FileNames |-> IF n = "b.png" THEN Parsing(80) ELSE NoStatus]
    /\ fileQueue = <<file>>
    /\ currentFileForPreview = NoFile
    /\ isAutoParse = TRUE
    /\ selectedIds = {}
    /\ isAnalyzingJob = FALSE
    /\ pipelines = <<[file |-> file, pages |-> <<>>, preview |-> NoFile,
                       pc |-> "ai", idx |-> 0, processedPages |-> 0]>>
    /\ analysis = Idle
    /\ jobAlert = FALSE
    /\ nextId = 0
    /\ nextUid = 1
    /\ presented = {}
    /\ dispatched = {file}
    /\ finished = {}
    /\ cancelled = {}
    /\ sortConfig = NoSort
    /\ selectedPages = {}
    /\ manualPageInput = <<>>

NextDuration ==
    \E k \in 1..Len(pipelines) :
        \E response \in DurationResponses : AiResponded(k, response)

SpecDuration == InitDuration /\ [][NextDuration]_vars

\* digits, or digits "." digits
IsDigits(chars) == chars # <<>> /\ \A i \in 1..Len(chars) : chars[i] \in DigitChars
IsNumber(chars) ==
    \/ IsDigits(chars)
    \/ \E p \in 2..(Len(chars) - 1) :
         /\ chars[p] = "."
         /\ IsDigits(SubSeq(chars, 1, p - 1))
         /\ IsDigits(SubSeq(chars, p + 1, Len(chars)))

\* where the text holds a quantity of a unit: a number from index i up to
\* index e - 1, then optional whitespace, then the first letter of the unit
Quantities(text, letters) ==
    {q \in (1..Len(text)) \X (2..(Len(text) + 1)) :
        /\ q[1] < q[2]
        /\ IsNumber(SubSeq(text, q[1], q[2] - 1))
        /\ \E k \in q[2]..Len(text) :
             /\ text[k] \in letters
             /\ \A j \in q[2]..(k - 1) : text[j] \in Whitespace}

\* the text is a number between optional whitespace
BareNumbers(text) ==
    {q \in (1..Len(text)) \X (2..(Len(text) + 1)) :
        /\ q[1] < q[2]
        /\ IsNumber(SubSeq(text, q[1], q[2] - 1))
        /\ \A j \in (1..(q[1] - 1)) \cup (q[2]..Len(text)) : text[j] \in Whitespace}

\* the value of the leftmost of these numbers as a fraction, 0 if there is none
FirstValue(text, numbers) ==
    IF numbers = {} THEN [num |-> 0, den |-> 1]
    ELSE LET q == CHOOSE n \in numbers : \A o \in numbers : n[1] <= o[1]
         IN  parseFloat(SubSeq(text, q[1], q[2] - 1))

\* years + months / 12 in tenths, the bare number without a quantity, else 0
ExpectedTenths(text) ==
    LET yearQs  == Quantities(text, {"y", "Y"})
        monthQs == Quantities(text, {"m", "M"})
        Y == FirstValue(text, IF yearQs = {} /\ monthQs = {}
                              THEN BareNumbers(text) ELSE yearQs)
        M == FirstValue(text, monthQs)
    IN  Round(10 * (Y.num * 12 * M.den + M.num * Y.den), Y.den * 12 * M.den)

\* the experience text of the response a Candidate was made from
ExperienceText(candidate) == GetProp(candidate.parsedJson, "totalExperience").val

\* C21: the duration parser never fails and gives a non-negative number of
\* years rounded to one decimal: years plus months / 12 for a text with a
\* year and/or a month quantity, the number for a bare number, else 0.  Every
\* extraction whose response carries an experience text succeeds, and its
\* Candidate's totalExperience is that value.
C21_DurationParser ==
    /\ pipelines = <<>> => Len(candidates) = 1 /\ fileStatuses["b.png"] = Success
    /\ \A i \in CandidateIndices :
         /\ candidates[i].totalExperience >= 0
         /\ candidates[i].totalExperience = ExpectedTenths(ExperienceText(candidates[i]))

\* "5 years 6 months" gave 5.5 years
C21_Witness ==
    /\ Len(candidates) = 1
    /\ ExperienceText(candidates[1]) = FiveYearsSixMonths
    /\ candidates[1].totalExperience = 55

(***************************************************************************)
(* The compensation parser (parseCTC), which the sort of the displayed     *)
(* candidates applies to currentCTC and expectedCTC.                       *)
(***************************************************************************)
\* ctc.toLowerCase().replace(/[,₹$]/g, '')
lowerCtc(ctc) ==
    SelectSeq(toLowerCase(ctc), LAMBDA c : c \notin {",", "₹", "$"})

\* (\d+\.?\d*) matched greedily at the digit at index i: the index after it
CtcNumberEnd(text, i) ==
    LET j == RunEnd(text, i, DigitChars)
    IN  IF j <= Len(text) /\ text[j] = "." THEN RunEnd(text, j + 1, DigitChars) ELSE j

RECURSIVE CtcUnitMatch(_, _, _)
\* text.match(/(\d+\.?\d*)\s*(u|...)/) for alternatives that all begin with the
\* letter unit, tried from index i on: where the leftmost match begins (0: null)
CtcUnitMatch(text, unit, i) ==
    IF i > Len(text) THEN 0
    ELSE IF /\ text[i] \in DigitChars
            /\ LET k == RunEnd(text, CtcNumberEnd(text, i), Whitespace)
               IN  k <= Len(text) /\ text[k] = unit
    THEN i
    ELSE CtcUnitMatch(text, unit, i + 1)

\* text.match(/(\d+\.?\d*)/): the index of the first digit (0: null)
CtcNumberMatch(text) ==
    LET i == RunEnd(text, 1, {c \in Range(text) : c \notin DigitChars})
    IN  IF i > Len(text) THEN 0 ELSE i

\* parseFloat(match[1]) * factor as a fraction, for a match that begins at i
CtcAmount(text, i, factor) ==
    LET n == parseFloat(SubSeq(text, i, CtcNumberEnd(text, i) - 1))
    IN  [num |-> n.num * factor, den |-> n.den]

\* a parser that prefers the k pattern to the lakh pattern
CtcOfTextKFirst(text) ==
    LET lakhMatch == CtcUnitMatch(text, "l", 1)
        kMatch    == CtcUnitMatch(text, "k", 1)
        numMatch  == CtcNumberMatch(text)
    IN  IF kMatch # 0 THEN CtcAmount(text, kMatch, 1000)
        ELSE IF lakhMatch # 0 THEN CtcAmount(text, lakhMatch, 100000)
        ELSE IF numMatch # 0 THEN CtcAmount(text, numMatch, 1)
        ELSE [num |-> 0, den |-> 1]

\* the body of parseCTC after lowerCtc is computed
CtcOfText(text) ==
    LET lakhMatch == CtcUnitMatch(text, "l", 1)
        kMatch    == CtcUnitMatch(text, "k", 1)
        numMatch  == CtcNumberMatch(text)
    IN  IF lakhMatch # 0 THEN CtcAmount(text, lakhMatch, 100000)
        ELSE IF kMatch # 0 THEN CtcAmount(text, kMatch, 1000)
        ELSE IF numMatch # 0 THEN CtcAmount(text, numMatch, 1)
        ELSE [num |-> 0, den |-> 1]

\* parseCTC for the value of a Candidate's field: 0 for a falsy value; a truthy
\* value that is no string has no toLowerCase (TypeError)
parseCTC(v) ==
    IF ~Truthy(v) THEN [threw |-> FALSE, amount |-> [num |-> 0, den |-> 1]]
    ELSE IF v.type # "string" THEN [threw |-> TRUE, amount |-> [num |-> 0, den |-> 1]]
    ELSE [threw |-> FALSE, amount |-> CtcOfText(lowerCtc(v.val))]

CtcChars == {"1", "2", ".", "l", "k", " ", ",", "x"}
TwelveLpa == <<"1", "2", " ", "L", "P", "A">>
FiftyK == <<"5", "0", "k">>
EightyThousandDollars == <<"$", "8", "0", ",", "0", "0", "0">>

CtcTexts ==
    TextsOver(CtcChars, MaxTextLen)
        \cup {TwelveLpa, FiftyK, EightyThousandDollars,
              <<"1", ".", "5", " ", "l", "a", "k", "h", " ", "5", "0", "K">>}

\* schema-following responses that also give a currentCTC
CtcResponses ==
    {[rejected |-> FALSE,
      text |-> JsonText(Obj([key \in RequiredFields \cup {"currentCTC"} |->
                               IF key = "currentCTC" THEN Str(ctc)
                               ELSE SomeObject.val[key]]))] :
        ctc \in CtcTexts}

NextCtc ==
    \E k \in 1..Len(pipelines) :
        \E response \in CtcResponses : AiResponded(k, response)

\* b.png's AI call is pending; the response gives the Candidate's currentCTC
SpecCtc == InitDuration /\ [][NextCtc]_vars

\* digits, optionally followed by "." and further digits
IsCtcNumber(chars) ==
    \E p \in 1..Len(chars) :
        /\ IsDigits(SubSeq(chars, 1, p))
        /\ \/ p = Len(chars)
           \/ /\ chars[p + 1] = "."
              /\ \A j \in (p + 2)..Len(chars) : chars[j] \in DigitChars

\* the numbers of the text that optional whitespace and the letter follow
CtcQuantities(text, letter) ==
    {q \in (1..Len(text)) \X (2..(Len(text) + 1)) :
        /\ q[1] < q[2]
        /\ IsCtcNumber(SubSeq(text, q[1], q[2] - 1))
        /\ \E k \in q[2]..Len(text) :
             /\ text[k] = letter
             /\ \A j \in q[2]..(k - 1) : text[j] \in Whitespace}

\* the numbers of the text that no further character can extend
CtcNumbers(text) ==
    {q \in (1..Len(text)) \X (2..(Len(text) + 1)) :
        /\ q[1] < q[2]
        /\ IsCtcNumber(SubSeq(text, q[1], q[2] - 1))
        /\ q[2] <= Len(text) => ~IsCtcNumber(SubSeq(text, q[1], q[2]))}

\* the leftmost of these numbers times factor, as a fraction
FirstAmount(text, numbers, factor) ==
    LET q == CHOOSE n \in numbers : \A o \in numbers : n[1] <= o[1]
        n == parseFloat(SubSeq(text, q[1], q[2] - 1))
    IN  [num |-> n.num * factor, den |-> n.den]

\* the ordering key of a compensation text: separators and currency signs
\* are dropped, letters are read without case
ExpectedCtc(ctc) ==
    LET text == SelectSeq(toLowerCase(ctc), LAMBDA c : c \notin {",", "₹", "$"})
    IN  IF CtcQuantities(text, "l") # {}
        THEN FirstAmount(text, CtcQuantities(text, "l"), 100000)
        ELSE IF CtcQuantities(text, "k") # {}
        THEN FirstAmount(text, CtcQuantities(text, "k"), 1000)
        ELSE IF CtcNumbers(text) # {}
        THEN FirstAmount(text, CtcNumbers(text), 1)
        ELSE [num |-> 0, den |-> 1]

\* C22: the compensation parser gives a non-negative key from one pattern in
\* the precedence lakh > k > bare number: the first lakh quantity times 100000
\* if the text holds one, otherwise the first k quantity times 1000, otherwise
\* the first number, otherwise 0.  It holds for the currentCTC of every
\* Candidate.
C22_CompensationParser ==
    \A i \in CandidateIndices :
        LET key == parseCTC(GetProp(Obj(candidates[i]), "currentCTC"))
        IN  /\ ~key.threw
            /\ key.amount.num >= 0 /\ key.amount.den > 0
            /\ key.amount = ExpectedCtc(candidates[i].currentCTC.val)

\* "1.5 lakh 50K" gave 150000: the lakh quantity alone, nothing added
C22_Witness ==
    /\ Len(candidates) = 1
    /\ candidates[1].currentCTC = Str(<<"1", ".", "5", " ", "l", "a", "k", "h", " ", "5", "0", "K">>)
    /\ parseCTC(candidates[1].currentCTC).amount = [num |-> 1500000, den |-> 10]

(***************************************************************************)
(* The composite image of a paginated document (fileToGenerativePart).     *)
(* The invocation's record also holds the loaded document's page viewports *)
(* at scale 1.5, renderedPages, totalHeight and maxWidth, and as history   *)
(* the pages whose canvas gave no 2d context.                              *)
(***************************************************************************)
PageSizes == {[width |-> 2, height |-> 3], [width |-> 3, height |-> 2]}

\* a stitching that lays the pages over each other
StitchOverlaid(p, pageNum) ==
    LET canvas == p.viewports[pageNum]
    IN  [p EXCEPT !.renderedPages = Append(@, [page |-> pageNum, width |-> canvas.width,
                                               height |-> canvas.height]),
                  !.totalHeight = IF canvas.height > @ THEN canvas.height ELSE @,
                  !.maxWidth = IF canvas.width > @ THEN canvas.width ELSE @]

\* a page was rendered on a canvas that has a page's viewport size:
\* renderedPages.push, totalHeight += canvas.height, maxWidth = Math.max(..)
Stitch(p, pageNum) ==
    LET canvas == p.viewports[pageNum]
    IN  [p EXCEPT !.renderedPages = Append(@, [page |-> pageNum, width |-> canvas.width,
                                               height |-> canvas.height]),
                  !.totalHeight = @ + canvas.height,
                  !.maxWidth = IF canvas.width > @ THEN canvas.width ELSE @]

\* One page was fetched; with a 2d context it is rendered, counted and added
\* to the composite, without one (if (!context) continue) it is skipped.
PageRasterized(k, context) ==
    /\ k \in 1..Len(pipelines)
    /\ pipelines[k].pc = "render"
    /\ LET p   == pipelines[k]
           ptp == PagesToParse(p.pages, NumPages(p.file.name))
           p2  == IF context
                  THEN Stitch([p EXCEPT !.processedPages = @ + 1], ptp[p.idx])
                  ELSE [p EXCEPT !.noContext = @ \cup {ptp[p.idx]}]
           s   == State
           s2  == IF context
                  THEN [s EXCEPT !.fileStatuses[p.file.name] =
                                    Parsing(PageProgress(p2.processedPages, Len(ptp)))]
                  ELSE s
       IN  Commit(QueueManager(ContinuePageLoop(s2, k, p2, p.idx + 1)))
    /\ UNCHANGED <<sortConfig, previewer, selectedIds, isAnalyzingJob, analysis,
                   jobAlert, nextUid, cancelled>>

\* the page selections handed to ResumePreviewer.handleConfirm: page numbers
\* of the document and one number beyond its last page
PageSelections == (SUBSET (1..(DocPages + 1))) \ {{}}

\* e.pdf and b.png were uploaded in manual mode and e.pdf was confirmed with
\* a selection; its processFile invocation is about to load the document
InitRender ==
    \E selection \in PageSelections, viewports \in [1..DocPages -> PageSizes] :
      LET file  == [name |-> "e.pdf", uid |-> 1]
          other == [name |-> "b.png", uid |-> 2] IN
      /\ candidates = <<>>
      /\ fileStatuses = [n \in FileNames \cup {"e.pdf"} |->
                           IF n = "e.pdf" THEN Parsing(5) ELSE NoStatus]
      /\ fileQueue = <<file, other>>
      /\ currentFileForPreview = file
      /\ isAutoParse = FALSE
      /\ selectedIds = {}
      /\ isAnalyzingJob = FALSE
      /\ pipelines = <<[file |-> file, pages |-> SortedSeq(selection), preview |-> file,
                        pc |-> "read", idx |-> 0, processedPages |-> 0,
                        viewports |-> viewports, renderedPages |-> <<>>,
                        totalHeight |-> 0, maxWidth |-> 0, noContext |-> {}]>>
      /\ analysis = Idle
      /\ jobAlert = FALSE
      /\ nextId = 0
      /\ nextUid = 2
      /\ presented = {file}
      /\ dispatched = {file}
      /\ finished = {}
      /\ cancelled = {}
      /\ sortConfig = NoSort
      /\ selectedPages = {}
      /\ manualPageInput = <<>>

NextRender ==
    \/ \E k \in PipelineIds, ok \in BOOLEAN : FileRead(k, ok)
    \/ \E k \in PipelineIds, context \in BOOLEAN : PageRasterized(k, context)

SpecRender == InitRender /\ [][NextRender]_vars

RECURSIVE SumOfHeights(_, _)
\* the sum of the viewport heights of a set of pages
SumOfHeights(viewports, pageSet) ==
    IF pageSet = {} THEN 0
    ELSE LET page == CHOOSE x \in pageSet : TRUE
         IN  viewports[page].height + SumOfHeights(viewports, pageSet \ {page})

\* the largest viewport width of a set of pages, 0 for none
MaxOfWidths(viewports, pageSet) ==
    IF pageSet = {} THEN 0
    ELSE CHOOSE w \in {viewports[page].width : page \in pageSet} :
            \A page \in pageSet : viewports[page].width <= w

\* the composite of invocation p is built from exactly these pages
CompositeOf(p, pageSet) ==
    /\ [i \in 1..Len(p.renderedPages) |-> p.renderedPages[i].page] = SortedSeq(pageSet)
    /\ p.totalHeight = SumOfHeights(p.viewports, pageSet)
    /\ p.maxWidth = MaxOfWidths(p.viewports, pageSet)

\* the selected pages that exist in the document
InRange(p) == Range(p.pages) \cap (1..NumPages(p.file.name))

\* the rendering of the named file failed for want of a rendered page
NoPagesFailure(statuses, name) ==
    statuses[name] = ErrorStatus(WrapError(NoPagesRendered))

RendersNoPage(k) ==
    LET p   == pipelines[k]
        n   == NumPages(p.file.name)
        ptp == PagesToParse(p.pages, n)
    IN  \/ /\ p.pc = "read"
           /\ IsPdf(FileType(p.file.name))
           /\ NextValid(ptp, 1, n) > Len(ptp)
           /\ FileRead(k, TRUE)
        \/ /\ p.pc = "render"
           /\ p.processedPages = 0
           /\ NextValid(ptp, p.idx + 1, n) > Len(ptp)
           /\ IF "noContext" \in DOMAIN p THEN PageRasterized(k, FALSE)
                                            ELSE PageRendered(k, FALSE)

\* C24: the rendering of a paginated document fails when no page renders:
\* no invocation reaches the AI call without a rendered page, and the step
\* that ends the page loop with none sets the file's status to error with
\* "Could not render any PDF pages.", adds no Candidate, ends the invocation
\* before any AI call, lets every other invocation continue, and leaves
\* every other queued file in the queue unless the step dispatches it.
C24_NoPageRenderedFails ==
    /\ [](\A k \in 1..Len(pipelines) :
            pipelines[k].pc = "ai" /\ IsPdf(FileType(pipelines[k].file.name))
               => pipelines[k].processedPages >= 1)
    /\ [][\A k \in 1..Len(pipelines) :
            RendersNoPage(k)
               => /\ FailureRecorded(pipelines[k].file,
                        <<"AI processing failed: ", "Could not render any PDF pages.">>)
                  /\ candidates' = candidates
                  /\ \A j \in 1..Len(pipelines) :
                        j # k => pipelines[j] \in Range(pipelines')
                  /\ \A j \in 1..Len(pipelines') :
                        pipelines'[j].pc = "ai" => pipelines'[j] \in Range(pipelines)
                  /\ \A g \in Range(fileQueue) :
                        g.uid # pipelines[k].file.uid
                           => g \in Range(fileQueue') \cup dispatched']_vars

\* this step ends a match analysis with its value: Promise.all resolved and
\* setCandidates(analyzedCandidates) ran
AnalysisCompletes ==
    /\ analysis # Idle
    /\ analysis' = Idle
    /\ jobAlert' = jobAlert

\* C26: the value a match analysis produces holds the candidates of the
\* collection it was started on, with the same ids in the same order, and
\* every field other than matchScore and matchReason (isShortlisted
\* included) has the value it had in that collection.
C26_AnalysisKeepsOtherFields ==
    [][AnalysisCompletes
         => /\ Len(candidates') = Len(analysis.snapshot)
            /\ \A j \in 1..Len(analysis.snapshot) :
                 /\ DOMAIN candidates'[j] = DOMAIN analysis.snapshot[j]
                 /\ candidates'[j].id = analysis.snapshot[j].id
                 /\ \A field \in DOMAIN analysis.snapshot[j] \ {"matchScore", "matchReason"} :
                      candidates'[j][field] = analysis.snapshot[j][field]]_vars

\* an analysis over two candidates, the first of them shortlisted, has ended:
\* both are scored, in their order, and the first is still shortlisted
C26_Witness ==
    /\ analysis = Idle
    /\ ~isAnalyzingJob
    /\ Len(candidates) = 2
    /\ candidates[1].id < candidates[2].id
    /\ candidates[1].isShortlisted /\ ~candidates[2].isShortlisted
    /\ candidates[1].matchScore = SomeScore
    /\ candidates[2].matchScore = FailedMatchScore
    /\ candidates[2].matchReason = FailedMatchReason

(***************************************************************************)
(* The sort of the displayed candidates (no filter is set).                *)
(***************************************************************************)
\* the column headers followed here: "Match %" and "Resume"
SortKeys == {"matchScore", "fileName"}

\* a click on a column header, shown with the table
requestSort(key) ==
    /\ candidates # <<>>
    /\ sortConfig' =
          [key |-> key,
           direction |-> IF sortConfig.key = key /\ sortConfig.direction = "ascending"
                         THEN "descending" ELSE "ascending"]
    /\ UNCHANGED <<previewer, candidates, fileStatuses, fileQueue, currentFileForPreview,
                   isAutoParse, selectedIds, isAnalyzingJob, pipelines, analysis,
                   jobAlert, nextId, nextUid, presented, dispatched, finished, cancelled>>

\* (aVal as number) ?? -1
ScoreOrDefault(matchScore) == IF matchScore = UndefinedScore THEN -1 ELSE matchScore

\* aVal.toLowerCase().localeCompare(bVal.toLowerCase()) for two file names
localeCompare(aVal, bVal) ==
    LET rank == [n \in {"a.pdf", "b.png", "c.docx", "d.txt", "e.pdf"} |->
                    CASE n = "a.pdf" -> 1 [] n = "b.png" -> 2 [] n = "c.docx" -> 3
                      [] n = "d.txt" -> 4 [] OTHER -> 5]
    IN  rank[aVal] - rank[bVal]

\* a comparator that subtracts the scores as they are: with an absent score
\* the difference is NaN, which sort reads as 0
compareUndefaulted(a, b, config) ==
    LET comparison ==
          IF config.key = "matchScore"
          THEN IF a.matchScore = UndefinedScore \/ b.matchScore = UndefinedScore
               THEN 0 ELSE a.matchScore - b.matchScore
          ELSE localeCompare(a.fileName, b.fileName)
    IN  IF config.direction = "ascending" THEN comparison ELSE 0 - comparison

\* the comparator of displayedCandidates
compare(a, b, config) ==
    LET comparison ==
          IF config.key = "matchScore"
          THEN ScoreOrDefault(a.matchScore) - ScoreOrDefault(b.matchScore)
          ELSE localeCompare(a.fileName, b.fileName)
    IN  IF config.direction = "ascending" THEN comparison ELSE 0 - comparison

\* x put into a sorted sequence behind everything that does not come after it
InsertSorted(sorted, x, config) ==
    LET behind == {i \in 1..Len(sorted) : compare(sorted[i], x, config) > 0}
        at     == IF behind = {} THEN Len(sorted) + 1
                  ELSE CHOOSE i \in behind : \A j \in behind : i <= j
    IN  SubSeq(sorted, 1, at - 1) \o <<x>> \o SubSeq(sorted, at, Len(sorted))

RECURSIVE StableSort(_, _)
\* Array.prototype.sort with the comparator (the sort is stable)
StableSort(seq, config) ==
    IF seq = <<>> THEN <<>>
    ELSE InsertSorted(StableSort(SubSeq(seq, 1, Len(seq) - 1), config), seq[Len(seq)], config)

\* useMemo: the candidates, sorted if a sort key is set
displayedCandidates ==
    IF sortConfig.key = NoSort.key THEN candidates ELSE StableSort(candidates, sortConfig)

\* the match analysis over a parsed collection, with the column headers
NextSort ==
    \/ handleJobAnalysis
    \/ \E i \in 1..MaxCandidates, reply \in MatchReplies : MatchReplied(i, reply)
    \/ \E key \in SortKeys : requestSort(key)

SpecSort == InitScore /\ [][NextSort]_vars

ByMatchScoreDescending == [key |-> "matchScore", direction |-> "descending"]

\* C27: the step that ends a match analysis sets the sort configuration to
\* matchScore descending, and under that configuration the displayed
\* candidates are the candidates in non-increasing matchScore order, those
\* without a matchScore after every scored one (one scored 0 included).
C27_SortedByMatchScore ==
    /\ [][AnalysisCompletes => sortConfig' = ByMatchScoreDescending]_vars
    /\ [](sortConfig = ByMatchScoreDescending
            => LET shown == displayedCandidates IN
               /\ Len(shown) = Len(candidates)
               /\ \A i \in 1..Len(candidates) :
                    Cardinality({j \in 1..Len(shown) : shown[j] = candidates[i]})
                       = Cardinality({j \in 1..Len(candidates) : candidates[j] = candidates[i]})
               /\ \A i \in 1..Len(shown), j \in 1..Len(shown) :
                    i < j => /\ shown[i].matchScore = UndefinedScore
                                 => shown[j].matchScore = UndefinedScore
                             /\ shown[j].matchScore # UndefinedScore
                                 => shown[i].matchScore >= shown[j].matchScore)

\* an analysis has ended that left the first candidate without a score (the
\* AI sent "{}") and the second with the score 0 of a failed call: the second
\* is displayed first
C27_Witness ==
    /\ sortConfig = ByMatchScoreDescending
    /\ analysis = Idle
    /\ Len(candidates) = 2
    /\ candidates[1].matchScore = UndefinedScore
    /\ candidates[2].matchScore = FailedMatchScore
    /\ candidates[2].matchReason = FailedMatchReason
    /\ displayedCandidates = <<candidates[2], candidates[1]>>

(***************************************************************************)
(* The page selection of the ResumePreviewer.  The specifications of the   *)
(* queue do not follow the previewer's own state: a confirm there sends    *)
(* any selection the previewer can hold (ConfirmOptions).                  *)
(***************************************************************************)
\* the characters typed into the page input
SelectionChars == {"1", "3", "4", ",", "-", " ", "x"}

RECURSIVE split(_, _)
\* String.prototype.split for a separator of one character
split(text, separator) ==
    LET hits == {i \in 1..Len(text) : text[i] = separator}
    IN  IF hits = {} THEN <<text>>
        ELSE LET i == CHOOSE h \in hits : \A g \in hits : h <= g
             IN  <<SubSeq(text, 1, i - 1)>> \o split(SubSeq(text, i + 1, Len(text)), separator)

\* parseInt(text, 10) of a text without a sign: leading whitespace is
\* skipped, the digits that follow are read, whatever comes after is ignored
parseInt(text) ==
    LET start == RunEnd(text, 1, Whitespace)
        stop  == RunEnd(text, start, DigitChars)
    IN  IF stop = start THEN [isNaN |-> TRUE, value |-> 0]
        ELSE [isNaN |-> FALSE, value |-> IntOf(SubSeq(text, start, stop - 1), stop - start)]

\* what one part of the input adds to newSelection
PagesOfPart(part, numPages) ==
    IF "-" \in Range(part)
    THEN LET pieces == split(part, "-")
             start  == parseInt(pieces[1])
             end    == parseInt(pieces[2])
             min    == IF start.value < end.value THEN start.value ELSE end.value
             max    == IF start.value < end.value THEN end.value ELSE start.value
         IN  IF ~start.isNaN /\ ~end.isNaN
             THEN {i \in min..max : i >= 1 /\ i <= numPages}
             ELSE {}
    ELSE LET page == parseInt(part)
         IN  IF ~page.isNaN /\ page.value >= 1 /\ page.value <= numPages
             THEN {page.value} ELSE {}

\* manualPageInput.split(',').map(p => p.trim()).filter(p => p)
PartsOf(input) ==
    LET pieces == split(input, ",")
    IN  SelectSeq([i \in 1..Len(pieces) |-> trim(pieces[i])], LAMBDA part : part # <<>>)

\* newSelection of applyManualSelection
ManualSelection(input, numPages) ==
    UNION {PagesOfPart(PartsOf(input)[i], numPages) : i \in 1..Len(PartsOf(input))}

\* `${n}` for a page number of one digit
PageText(n) == <<CHOOSE c \in DigitChars : DigitValue(c) = n>>

RECURSIVE RangesText(_, _)
\* ranges.join(', ') for the selected pages from page on
RangesText(selection, page) ==
    LET rest == {q \in selection : q >= page}
    IN  IF rest = {} THEN <<>>
        ELSE LET start == CHOOSE q \in rest : \A r \in rest : q <= r
                 prev  == CHOOSE q \in rest :
                             /\ \A r \in start..q : r \in rest
                             /\ q + 1 \notin rest
                 range == IF start = prev THEN PageText(start)
                          ELSE PageText(start) \o <<"-">> \o PageText(prev)
                 more  == RangesText(selection, prev + 1)
             IN  IF more = <<>> THEN range ELSE range \o <<",", " ">> \o more

\* the effect on [selectedPages]: the input shows the selection as ranges
SyncedInput(selection) == RangesText(selection, 1)

\* the page controls are shown for a paginated document in the previewer
PageControlsShown == PreviewerShown /\ IsPdf(FileType(currentFileForPreview.name))

\* the input after one keystroke: a character more, or the last one less
Edits(input) ==
    {Append(input, c) : c \in IF Len(input) < MaxTextLen THEN SelectionChars ELSE {}}
       \cup (IF input = <<>> THEN {} ELSE {SubSeq(input, 1, Len(input) - 1)})

handleManualInputChange(value) ==
    /\ PageControlsShown
    /\ manualPageInput' = value
    /\ UNCHANGED <<sortConfig, selectedPages, candidates, fileStatuses, fileQueue,
                   currentFileForPreview, isAutoParse, selectedIds, isAnalyzingJob,
                   pipelines, analysis, jobAlert, nextId, nextUid, presented,
                   dispatched, finished, cancelled>>

\* the Apply button, with the effect that follows setSelectedPages
applyManualSelection ==
    /\ PageControlsShown
    /\ selectedPages' = ManualSelection(manualPageInput,
                                        NumPages(currentFileForPreview.name))
    /\ manualPageInput' = SyncedInput(selectedPages')
    /\ UNCHANGED <<sortConfig, candidates, fileStatuses, fileQueue,
                   currentFileForPreview, isAutoParse, selectedIds, isAnalyzingJob,
                   pipelines, analysis, jobAlert, nextId, nextUid, presented,
                   dispatched, finished, cancelled>>

\* a click on a page thumbnail, with the effect that follows setSelectedPages
handleTogglePage(pageNumber) ==
    /\ PageControlsShown
    /\ pageNumber \in 1..NumPages(currentFileForPreview.name)
    /\ selectedPages' = IF pageNumber \in selectedPages
                        THEN selectedPages \ {pageNumber}
                        ELSE selectedPages \cup {pageNumber}
    /\ manualPageInput' = SyncedInput(selectedPages')
    /\ UNCHANGED <<sortConfig, candidates, fileStatuses, fileQueue,
                   currentFileForPreview, isAutoParse, selectedIds, isAnalyzingJob,
                   pipelines, analysis, jobAlert, nextId, nextUid, presented,
                   dispatched, finished, cancelled>>

\* e.pdf was uploaded in manual mode and the previewer has loaded it: every
\* page is selected
InitSelection ==
    LET file == [name |-> "e.pdf", uid |-> 1] IN
    /\ candidates = <<>>
    /\ fileStatuses = [n \in FileNames \cup {"e.pdf"} |-> NoStatus]
    /\ fileQueue = <<file>>
    /\ currentFileForPreview = file
    /\ isAutoParse = FALSE
    /\ selectedIds = {}
    /\ isAnalyzingJob = FALSE
    /\ pipelines = <<>>
    /\ analysis = Idle
    /\ jobAlert = FALSE
    /\ nextId = 0
    /\ nextUid = 1
    /\ presented = {file}
    /\ dispatched = {}
    /\ finished = {}
    /\ cancelled = {}
    /\ sortConfig = NoSort
    /\ selectedPages = 1..DocPages
    /\ manualPageInput = SyncedInput(1..DocPages)

NextSelection ==
    \/ \E value \in Edits(manualPageInput) : handleManualInputChange(value)
    \/ applyManualSelection
    \/ \E pageNumber \in 1..DocPages : handleTogglePage(pageNumber)

SpecSelection == InitSelection /\ [][NextSelection]_vars

\* the pages an entry of the input names: a numeral names its page, two
\* numerals around a hyphen name the pages between them, anything else names
\* nothing
NamedBy(entry) ==
    IF IsDigits(entry) THEN {IntOf(entry, Len(entry))}
    ELSE UNION {LET a == trim(SubSeq(entry, 1, h - 1))
                    b == trim(SubSeq(entry, h + 1, Len(entry)))
                IN  IF IsDigits(a) /\ IsDigits(b)
                    THEN {i \in 1..IntOf(a, Len(a)) \cup 1..IntOf(b, Len(b)) :
                            \/ IntOf(a, Len(a)) <= i /\ i <= IntOf(b, Len(b))
                            \/ IntOf(b, Len(b)) <= i /\ i <= IntOf(a, Len(a))}
                    ELSE {}
                : h \in {i \in 1..Len(entry) : entry[i] = "-"}}

\* the entries of the input: what stands between the commas, trimmed
EntriesOf(input) ==
    {trim(SubSeq(input, q[1], q[2])) :
        q \in {q \in (1..(Len(input) + 1)) \X (0..Len(input)) :
                 /\ q[1] <= q[2] + 1
                 /\ \A i \in q[1]..q[2] : input[i] # ","
                 /\ q[1] = 1 \/ input[q[1] - 1] = ","
                 /\ q[2] = Len(input) \/ input[q[2] + 1] = ","}}

\* the pages of 1..numPages that the input names
NamedPages(input, numPages) ==
    (UNION {NamedBy(entry) : entry \in EntriesOf(input)}) \cap (1..numPages)

\* C25: Apply turns the page-selection string into the set of the pages that
\* its comma-separated numbers and ranges "a-b" name, restricted to
\* 1..pageCount, entries that are out of range or not numeric adding nothing;
\* the selection is always a subset of 1..pageCount.
C25_SelectionOfNamedPages ==
    /\ [](selectedPages \subseteq 1..DocPages)
    /\ [][applyManualSelection
            => selectedPages' = NamedPages(manualPageInput, DocPages)]_vars

=============================================================================
